---- MODULE Spec2Model ----
(***************************************************************************)
(* Model of the benchmark aggregation engine of explainaboard_web:         *)
(* backend/src/impl/benchmark_utils.py, class BenchmarkUtils.              *)
(*                                                                         *)
(* One behaviour is one call of generate_view_dataframes(config, systems): *)
(* the Table Builder (generate_dataframe_from_sys_infos) runs statement by *)
(* statement, then every configured view is aggregated (aggregate_view).   *)
(*                                                                         *)
(* Python dicts are functions whose DOMAIN is the set of keys present, so  *)
(* that d.get(k, default) and d[k] are modelled as the code evaluates      *)
(* them.  None is the string "None".  Floats are exact rationals <<n, d>>  *)
(* with d > 0 in lowest terms (rounding is not modelled), NaN is <<0, 0>>.  *)
(* Python list positions are 0-based; the model's sequences are 1-based.   *)
(*                                                                         *)
(* Two more calls have a specification of their own: the Table Renderer    *)
(* (dataframe_to_table, SpecTable) and the Benchmark Composer              *)
(* (benchmark_benchmark_id_get of default_controllers_impl.py,             *)
(* SpecComposer).  The variables of the calls a specification does not     *)
(* make stay idle in it.                                                   *)
(***************************************************************************)
EXTENDS Integers, Sequences, FiniteSets, TLC

VARIABLES
    config,                  \* BenchmarkConfig: datasets, metrics, views
    systems,                 \* the list of raw system info dicts
    pc,                      \* position in generate_view_dataframes
    err,                     \* the exception that ended the call, or "none"
    dataset_to_id,           \* dict: identity tuple -> position in config.datasets
    system_dataset_results,  \* dict: system name -> list of slots (0 = None, i = systems[i])
    sys_order,               \* insertion order of the keys of system_dataset_results
    i,                       \* loop counter of the loop the call is in
    j,                       \* inner loop counter (dataset position while emitting)
    df_columns,              \* keys of df_input, in insertion order
    df_rows,                 \* the rows appended to df_input so far
    orig_df,                 \* the DataFrame returned by the Table Builder
    output_df,               \* aggregate_view's working DataFrame
    view_dfs,                \* dict: view name -> DataFrame
    view_order,              \* insertion order of the keys of view_dfs
    \* dataframe_to_table
    input_df,                \* the DataFrame to render
    table_pc,                \* position in dataframe_to_table
    elem_names,              \* the descriptor columns
    system_map,              \* dict: system name -> row id (1-based)
    row_col_names,           \* the label of every row of input_df
    column_map,              \* dict: label -> column id (1-based)
    scores,                  \* the matrix of scores
    row_no,                  \* loop counter of the loop over the rows
    table,                   \* the BenchmarkTable returned
    \* benchmark_benchmark_id_get
    bm_config,               \* BenchmarkConfig: record_configs, aggregation_configs
    stored,                  \* the systems in the database, newest first
    composer_pc,             \* position in benchmark_benchmark_id_get
    composer_err,            \* the exception that ended the call, or "none"
    rec,                     \* position of the record config being processed
    fetched,                 \* systems_return.systems of that record config
    sys_i,                   \* loop counter of the loop over the fetched systems
    leaderboard              \* the list of LeaderboardRecords appended so far

buildVars == <<config, systems, pc, err, dataset_to_id, system_dataset_results,
               sys_order, i, j, df_columns, df_rows, orig_df, output_df, view_dfs,
               view_order>>

tableVars == <<input_df, table_pc, elem_names, system_map, row_col_names, column_map,
               scores, row_no, table>>

composerVars == <<bm_config, stored, composer_pc, composer_err, rec, fetched, sys_i,
                  leaderboard>>

vars == <<buildVars, tableVars, composerVars>>

None == "None"

(***************************************************************************)
(* Bounds of the model.                                                    *)
(***************************************************************************)
MaxDatasets == 2     \* longest config.datasets drawn
MaxInfos == 3        \* longest systems list drawn
MaxOps == 2          \* longest operation list of a view drawn
MaxViews == 2        \* longest config.views drawn by SpecViews
MaxRows == 3         \* most rows of the table drawn by SpecTable
MaxFetched == 2      \* most systems one systems_get returns in SpecComposer

(***************************************************************************)
(* Sequence and dict helpers.                                              *)
(***************************************************************************)
Range(s) == {s[k] : k \in 1..Len(s)}

SeqsUpTo(S, lo, hi) == UNION {[1..n -> S] : n \in lo..hi}

\* d.get(k, default)
Get(d, k, default) == IF k \in DOMAIN d THEN d[k] ELSE default

\* d[k] = v on a dict
DictSet(d, k, v) == [x \in (DOMAIN d) \cup {k} |-> IF x = k THEN v ELSE d[x]]

EmptyDict == [x \in {} |-> 0]

\* list(dict.keys()) after d[k] = v: a new key goes last, an old key stays
KeyOrderSet(order, k) == IF k \in Range(order) THEN order ELSE Append(order, k)

(***************************************************************************)
(* Exact rational arithmetic for the float columns.                        *)
(***************************************************************************)
RECURSIVE GCD(_, _)
GCD(a, b) == IF b = 0 THEN a ELSE GCD(b, a % b)

Rat(n, d) == LET g == GCD(n, d) IN IF g = 0 THEN <<0, 1>> ELSE <<n \div g, d \div g>>

\* NaN, the missing value of a float column
NaN == <<0, 0>>

IsNaN(x) == x[2] = 0

RAdd(x, y) == IF IsNaN(x) \/ IsNaN(y) THEN NaN ELSE Rat(x[1] * y[2] + y[1] * x[2], x[2] * y[2])

RMul(x, y) == IF IsNaN(x) \/ IsNaN(y) THEN NaN ELSE Rat(x[1] * y[1], x[2] * y[2])

RDivInt(x, n) == IF IsNaN(x) \/ n = 0 THEN NaN ELSE Rat(x[1], x[2] * n)

Zero == <<0, 1>>

(***************************************************************************)
(* Inputs: the dataset specs, metric specs and raw system infos the        *)
(* specifications draw config and systems from.                            *)
(***************************************************************************)
M_acc == [name |-> "accuracy"]

M_f1 == [name |-> "f1", weight |-> <<3, 4>>, default |-> <<1, 2>>]

DS_sst2 == [dataset_name |-> "sst2"]

DS_mnli == [dataset_name |-> "mnli", dataset_split |-> "test", task |-> "nli"]

DS_xnli == [dataset_name |-> "xnli", sub_dataset_name |-> "en",
            dataset_split |-> "dev", metrics |-> <<M_f1>>]

DatasetSpecs == {DS_sst2, DS_mnli, DS_xnli}

MetricLists == {<<M_acc>>, <<M_acc, M_f1>>, <<M_acc, M_acc>>}

Info(sn, dn, sub, split, res) ==
    [system_name |-> sn, dataset_name |-> dn, sub_dataset_name |-> sub,
     dataset_split |-> split, results |-> res]

I_A_sst2 == Info("A", "sst2", None, "test", [accuracy |-> <<4, 5>>])

I_A_sst2_f1 == Info("A", "sst2", None, "test", [f1 |-> <<1, 4>>])

I_A_mnli == Info("A", "mnli", None, "test", [accuracy |-> <<3, 5>>])

I_B_sst2 == Info("B", "sst2", None, "test", [accuracy |-> <<2, 5>>, f1 |-> <<1, 5>>])

I_B_xnli == Info("B", "xnli", "en", "dev", [f1 |-> <<1, 10>>])

I_B_sst3 == Info("B", "sst3", None, "test", [accuracy |-> <<1, 1>>])

SysInfos == {I_A_sst2, I_A_sst2_f1, I_A_mnli, I_B_sst2, I_B_xnli, I_B_sst3}

\* system names in the order sorted() gives them (groupby sorts its keys)
SystemNames == <<"A", "B">>

(***************************************************************************)
(* Table Builder: generate_dataframe_from_sys_infos.                       *)
(***************************************************************************)
\* the identity a dataset record is fetched by (load_sys_infos)
RecordIdentity(record) ==
    <<record["dataset_name"], Get(record, "sub_dataset_name", None),
      Get(record, "dataset_split", "test")>>

\* the key the dataset index is built with
IndexKey(x) == <<x["dataset_name"], Get(x, "sub_dataset", None), Get(x, "split", "test")>>

\* the key a raw system info is resolved with
SysKey(sys) == <<sys["dataset_name"], sys["sub_dataset_name"], sys["dataset_split"]>>

\* the dict comprehension: a later dataset with the same key overwrites
DatasetToId(datasets) ==
    [k \in {IndexKey(datasets[n]) : n \in 1..Len(datasets)} |->
        CHOOSE n \in 1..Len(datasets) :
            /\ IndexKey(datasets[n]) = k
            /\ \A m \in 1..Len(datasets) : IndexKey(datasets[m]) = k => m <= n]

\* faulty variant: an unlisted key falls back to the first dataset
LookupDataset_first(index, key) == IF key \in DOMAIN index THEN index[key] ELSE 1

\* dataset_to_id[key]: the position, or 0 when the lookup raises KeyError
LookupDataset(index, key) == IF key \in DOMAIN index THEN index[key] ELSE 0

\* config.metrics is None when the config has no "metrics"
MetricsIsNone(dataset) == "metrics" \notin DOMAIN dataset /\ "metrics" \notin DOMAIN config

\* dataset.get("metrics", config.metrics)
DatasetMetrics(dataset) == Get(dataset, "metrics", Get(config, "metrics", <<>>))

\* the keys of df_input: fixed keys, then the datasets' keys in order of
\* first appearance ("metrics" excluded), then metric, metric_weight, score
RECURSIVE AddKeys(_, _)
AddKeys(cols, keys) ==
    IF keys = {} THEN cols
    ELSE LET k == CHOOSE x \in keys : TRUE
         IN AddKeys(IF k \in Range(cols) \/ k = "metrics" THEN cols ELSE Append(cols, k),
                    keys \ {k})

RECURSIVE DatasetKeys(_, _, _)
DatasetKeys(cols, datasets, n) ==
    IF n > Len(datasets) THEN cols
    ELSE DatasetKeys(AddKeys(cols, DOMAIN datasets[n]), datasets, n + 1)

DfInputKeys(datasets) ==
    DatasetKeys(<<"system_name", "dataset_name", "sub_dataset_name", "dataset_split">>,
                datasets, 1)
    \o <<"metric", "metric_weight", "score">>

\* faulty variant: a missing score is 0.0 whatever default the metric configures
Score_zeroDefault(sys_slot, dataset_metric) ==
    IF sys_slot # 0 /\ dataset_metric["name"] \in DOMAIN systems[sys_slot]["results"]
    THEN systems[sys_slot]["results"][dataset_metric["name"]]
    ELSE Zero

\* the score of one row
Score(sys_slot, dataset_metric) ==
    IF sys_slot # 0
    THEN IF dataset_metric["name"] \in DOMAIN systems[sys_slot]["results"]
         THEN systems[sys_slot]["results"][dataset_metric["name"]]
         ELSE Get(dataset_metric, "default", Zero)
    ELSE Get(dataset_metric, "default", Zero)

\* column_dict when the row of dataset_metric is appended
ColumnDict(sys_name, dataset, sys_slot, dataset_metric) ==
    LET c1 == DictSet(dataset, "system_name", sys_name)
        c2 == DictSet(c1, "metric", dataset_metric["name"])
        c3 == DictSet(c2, "metric_weight",
                      Get(dataset_metric, "weight", Rat(1, Len(DatasetMetrics(dataset)))))
    IN DictSet(c3, "score", Score(sys_slot, dataset_metric))

\* faulty variant: a dataset the system did not submit to gets no rows
DatasetRows_submittedOnly(sys_name, dataset, sys_slot) ==
    IF sys_slot = 0 THEN <<>>
    ELSE [m \in 1..Len(DatasetMetrics(dataset)) |->
            LET cd == ColumnDict(sys_name, dataset, sys_slot, DatasetMetrics(dataset)[m])
            IN [df_key \in Range(df_columns) |-> Get(cd, df_key, None)]]

\* the rows one (system, dataset) iteration appends: one per dataset metric
DatasetRows(sys_name, dataset, sys_slot) ==
    [m \in 1..Len(DatasetMetrics(dataset)) |->
        LET cd == ColumnDict(sys_name, dataset, sys_slot, DatasetMetrics(dataset)[m])
        IN [df_key \in Range(df_columns) |-> Get(cd, df_key, None)]]

\* pd.DataFrame(df_input): a fresh RangeIndex
DataFrame(columns, rows) ==
    [columns |-> columns, rows |-> rows, index_name |-> None,
     index |-> [n \in 1..Len(rows) |-> n - 1]]

EmptyFrame == DataFrame(<<>>, <<>>)

TypeOK ==
    /\ pc \in {"index", "group", "emit", "views", "ops", "done", "failed"}
    /\ err \in {"none", "KeyError", "ValueError", "TypeError"}
    /\ i \in 0..(MaxInfos + MaxDatasets + MaxViews + 3)
    /\ j \in 0..(MaxDatasets + 2)

\* lines 82-85
BuildIndex ==
    /\ pc = "index"
    /\ dataset_to_id' = DatasetToId(config["datasets"])
    /\ pc' = "group"
    /\ i' = 1
    /\ UNCHANGED <<config, systems, err, system_dataset_results, sys_order, j,
                   df_columns, df_rows, orig_df, output_df, view_dfs, view_order>>
    /\ UNCHANGED <<tableVars, composerVars>>

\* lines 87-94, one iteration of the loop over systems
PlaceInfo ==
    /\ pc = "group"
    /\ i <= Len(systems)
    /\ LET sys == systems[i]
           sys_name == sys["system_name"]
           slots == IF sys_name \in DOMAIN system_dataset_results
                    THEN system_dataset_results[sys_name]
                    ELSE [n \in 1..Len(config["datasets"]) |-> 0]
           dataset_id == LookupDataset(dataset_to_id, SysKey(sys))
       IN IF dataset_id # 0
          THEN /\ system_dataset_results' =
                     DictSet(system_dataset_results, sys_name,
                             [slots EXCEPT ![dataset_id] = i])
               /\ sys_order' = KeyOrderSet(sys_order, sys_name)
               /\ i' = i + 1
               /\ UNCHANGED <<pc, err>>
          ELSE \* dataset_to_id[...] raises KeyError after the slots were created
               /\ system_dataset_results' = DictSet(system_dataset_results, sys_name, slots)
               /\ sys_order' = KeyOrderSet(sys_order, sys_name)
               /\ pc' = "failed"
               /\ err' = "KeyError"
               /\ UNCHANGED i
    /\ UNCHANGED <<config, systems, dataset_to_id, j, df_columns, df_rows, orig_df,
                   output_df, view_dfs, view_order>>
    /\ UNCHANGED <<tableVars, composerVars>>

\* lines 97-110
InitDfInput ==
    /\ pc = "group"
    /\ i > Len(systems)
    /\ df_columns' = DfInputKeys(config["datasets"])
    /\ df_rows' = <<>>
    /\ pc' = "emit"
    /\ i' = 1
    /\ j' = 1
    /\ UNCHANGED <<config, systems, err, dataset_to_id, system_dataset_results,
                   sys_order, orig_df, output_df, view_dfs, view_order>>
    /\ UNCHANGED <<tableVars, composerVars>>

\* lines 113-144, one iteration of the loop over zip(config.datasets, sys_infos)
EmitRows ==
    /\ pc = "emit"
    /\ i <= Len(sys_order)
    /\ j <= Len(config["datasets"])
    /\ LET sys_name == sys_order[i]
           dataset == config["datasets"][j]
           sys_slot == system_dataset_results[sys_name][j]
       IN IF MetricsIsNone(dataset)
          THEN /\ pc' = "failed"
               /\ err' = "ValueError"
               /\ UNCHANGED <<i, j, df_rows>>
          ELSE /\ df_rows' = df_rows \o DatasetRows(sys_name, dataset, sys_slot)
               /\ IF j < Len(config["datasets"])
                  THEN j' = j + 1 /\ i' = i
                  ELSE j' = 1 /\ i' = i + 1
               /\ UNCHANGED <<pc, err>>
    /\ UNCHANGED <<config, systems, dataset_to_id, system_dataset_results, sys_order,
                   df_columns, orig_df, output_df, view_dfs, view_order>>
    /\ UNCHANGED <<tableVars, composerVars>>

\* line 146 and line 169: the table is built, view_dfs = {"orig": orig_df}
ReturnDataFrame ==
    /\ pc = "emit"
    /\ i > Len(sys_order)
    /\ orig_df' = DataFrame(df_columns, df_rows)
    /\ view_dfs' = DictSet(EmptyDict, "orig", DataFrame(df_columns, df_rows))
    /\ view_order' = <<"orig">>
    /\ pc' = "views"
    /\ i' = 1
    /\ UNCHANGED <<config, systems, err, dataset_to_id, system_dataset_results,
                   sys_order, j, df_columns, df_rows, output_df>>
    /\ UNCHANGED <<tableVars, composerVars>>

(***************************************************************************)
(* View Aggregator: aggregate_view.  The pandas operations it calls are    *)
(* modelled on the frame [columns, rows, index_name, index].               *)
(***************************************************************************)
\* the columns pandas holds as floats: every other column of the table holds
\* strings or None (dtype object)
IsNumeric(col) == col \in {"metric_weight", "score"}

\* the group key of row n of df.groupby(["system_name"]): the column, or the
\* index level of that name once an earlier groupby folded it into the index
GroupKey(df, n) ==
    IF "system_name" \in Range(df.columns) THEN df.rows[n]["system_name"] ELSE df.index[n]

GroupKeys(df) == {GroupKey(df, n) : n \in 1..Len(df.rows)}

\* the group keys in sorted order (groupby sorts its keys)
SortedKeys(keys) == SelectSeq(SystemNames, LAMBDA k : k \in keys)

\* the sum of a column over the rows of a group; NaN cells are skipped
RECURSIVE ColumnSum(_, _, _, _)
ColumnSum(df, col, key, n) ==
    IF n > Len(df.rows) THEN Zero
    ELSE IF GroupKey(df, n) = key /\ ~IsNaN(df.rows[n][col])
         THEN RAdd(df.rows[n][col], ColumnSum(df, col, key, n + 1))
         ELSE ColumnSum(df, col, key, n + 1)

\* the number of cells of a column a group aggregates
ColumnCount(df, col, key) ==
    Cardinality({n \in 1..Len(df.rows) : GroupKey(df, n) = key /\ ~IsNaN(df.rows[n][col])})

\* faulty variant: cells holding 0.0 are left out of the mean
ColumnMean_nonzero(df, col, key) ==
    RDivInt(ColumnSum(df, col, key, 1),
            Cardinality({n \in 1..Len(df.rows) :
                            GroupKey(df, n) = key /\ df.rows[n][col][1] # 0}))

\* the mean of a column over the rows of a group
ColumnMean(df, col, key) == RDivInt(ColumnSum(df, col, key, 1), ColumnCount(df, col, key))

\* df.groupby(["system_name"]).mean() / .sum(): one row per key, the key in
\* the index, the numeric columns aggregated, the other columns dropped
GroupBy(df, op) ==
    LET cols == SelectSeq(df.columns, IsNumeric)
        keys == SortedKeys(GroupKeys(df))
    IN [columns |-> cols,
        rows |-> [g \in 1..Len(keys) |->
                    [c \in Range(cols) |->
                        IF op = "mean" THEN ColumnMean(df, c, keys[g])
                        ELSE ColumnSum(df, c, keys[g], 1)]],
        index_name |-> "system_name",
        index |-> keys]

\* the cell of column other that score is multiplied with: a None of an
\* object column is a missing value, and the product with it is NaN
Factor(row, other) == IF IsNumeric(other) THEN row[other] ELSE NaN

\* faulty variant: the product is written to the other column as well
Multiply_both(df, other) ==
    [df EXCEPT !.rows = [n \in 1..Len(df.rows) |->
        [c \in DOMAIN df.rows[n] |->
            IF c \in {"score", other}
            THEN RMul(df.rows[n]["score"], Factor(df.rows[n], other))
            ELSE df.rows[n][c]]]]

\* output_df["score"] = output_df["score"] * output_df[other]
Multiply(df, other) ==
    [df EXCEPT !.rows = [n \in 1..Len(df.rows) |->
        [df.rows[n] EXCEPT !["score"] = RMul(df.rows[n]["score"], Factor(df.rows[n], other))]]]

\* the exception output_df["score"] * output_df[other] raises, or "none":
\* output_df[other] raises KeyError for a missing column, and a float times
\* a str raises TypeError (pandas multiplies the non-missing cells only)
MultiplyError(df, other) ==
    IF other \notin Range(df.columns) THEN "KeyError"
    ELSE IF ~IsNumeric(other) /\ \E n \in 1..Len(df.rows) : df.rows[n][other] # None
         THEN "TypeError"
    ELSE "none"

\* faulty variant: reset_index(drop=True), the index is discarded
ResetIndex_drop(df) ==
    [columns |-> df.columns, rows |-> df.rows, index_name |-> None,
     index |-> [n \in 1..Len(df.rows) |-> n - 1]]

\* output_df.reset_index(inplace=True): the index becomes the first column,
\* named after the index, or "index" for an unnamed RangeIndex
ResetIndex(df) ==
    LET name == IF df.index_name = None THEN "index" ELSE df.index_name
    IN [columns |-> <<name>> \o df.columns,
        rows |-> [n \in 1..Len(df.rows) |->
                    [c \in Range(df.columns) \cup {name} |->
                        IF c = name THEN df.index[n] ELSE df.rows[n][c]]],
        index_name |-> None,
        index |-> [n \in 1..Len(df.rows) |-> n - 1]]

(***************************************************************************)
(* generate_view_dataframes and the loop of aggregate_view.                *)
(***************************************************************************)
\* line 171 entering aggregate_view, line 152: output_df = input_df.copy()
CopyInput ==
    /\ pc = "views"
    /\ i <= Len(config["views"])
    /\ output_df' = orig_df
    /\ pc' = "ops"
    /\ j' = 1
    /\ UNCHANGED <<config, systems, err, dataset_to_id, system_dataset_results,
                   sys_order, i, df_columns, df_rows, orig_df, view_dfs, view_order>>
    /\ UNCHANGED <<tableVars, composerVars>>

\* lines 153-159, one iteration of the loop over view_spec.operations
ApplyOperation ==
    /\ pc = "ops"
    /\ j <= Len(config["views"][i]["operations"])
    /\ LET operation == config["views"][i]["operations"][j]
       IN IF operation["op"] = "mean"
          THEN /\ output_df' = GroupBy(output_df, "mean")
               /\ j' = j + 1
               /\ UNCHANGED <<pc, err>>
          ELSE IF operation["op"] = "multiply"
          THEN IF MultiplyError(output_df, operation["other"]) # "none"
               THEN /\ pc' = "failed"
                    /\ err' = MultiplyError(output_df, operation["other"])
                    /\ UNCHANGED <<output_df, j>>
               ELSE /\ output_df' = Multiply(output_df, operation["other"])
                    /\ j' = j + 1
                    /\ UNCHANGED <<pc, err>>
          ELSE IF operation["op"] = "sum"
          THEN /\ output_df' = GroupBy(output_df, "sum")
               /\ j' = j + 1
               /\ UNCHANGED <<pc, err>>
          ELSE /\ j' = j + 1
               /\ UNCHANGED <<output_df, pc, err>>
    /\ UNCHANGED <<config, systems, dataset_to_id, system_dataset_results, sys_order,
                   i, df_columns, df_rows, orig_df, view_dfs, view_order>>
    /\ UNCHANGED <<tableVars, composerVars>>

\* lines 160-161 and the assignment of line 171
StoreView ==
    /\ pc = "ops"
    /\ j > Len(config["views"][i]["operations"])
    /\ output_df' = ResetIndex(output_df)
    /\ view_dfs' = DictSet(view_dfs, config["views"][i]["name"], ResetIndex(output_df))
    /\ view_order' = KeyOrderSet(view_order, config["views"][i]["name"])
    /\ pc' = "views"
    /\ i' = i + 1
    /\ UNCHANGED <<config, systems, err, dataset_to_id, system_dataset_results,
                   sys_order, j, df_columns, df_rows, orig_df>>
    /\ UNCHANGED <<tableVars, composerVars>>

\* line 173
ReturnViews ==
    /\ pc = "views"
    /\ i > Len(config["views"])
    /\ pc' = "done"
    /\ UNCHANGED <<config, systems, err, dataset_to_id, system_dataset_results,
                   sys_order, i, j, df_columns, df_rows, orig_df, output_df, view_dfs,
                   view_order>>
    /\ UNCHANGED <<tableVars, composerVars>>

(***************************************************************************)
(* Table Renderer: _col_name and dataframe_to_table.                       *)
(***************************************************************************)
\* the decimal places str(float) is rendered with at most
FloatDigits == 16

\* the decimal places of r / d, up to k of them
RECURSIVE Decimals(_, _, _)
Decimals(r, d, k) ==
    IF r = 0 \/ k = 0 THEN ""
    ELSE ToString((r * 10) \div d) \o Decimals((r * 10) % d, d, k - 1)

\* str(x) of a float: "nan", "1.0", "0.75"
FloatStr(x) ==
    IF IsNaN(x) THEN "nan"
    ELSE LET n == IF x[1] < 0 THEN 0 - x[1] ELSE x[1]
         IN (IF x[1] < 0 THEN "-" ELSE "") \o ToString(n \div x[2]) \o "."
            \o (IF n % x[2] = 0 THEN "0" ELSE Decimals(n % x[2], x[2], FloatDigits))

\* the truth value of df_entry[elem]: None, "", 0 and 0.0 are false, NaN is
\* true; metric_weight holds floats, index holds ints, the other descriptor
\* columns hold strings or None
Truthy(elem, value) ==
    IF IsNumeric(elem) THEN IsNaN(value) \/ value[1] # 0
    ELSE IF elem = "index" THEN value # 0
    ELSE value # None /\ value # ""

\* the {df_entry[elem]} of the f-string
Str(elem, value) ==
    IF IsNumeric(elem) THEN FloatStr(value)
    ELSE IF elem = "index" THEN ToString(value)
    ELSE value

\* sep.join(parts)
RECURSIVE Join(_, _)
Join(sep, parts) ==
    IF parts = <<>> THEN ""
    ELSE IF Len(parts) = 1 THEN parts[1]
    ELSE parts[1] \o sep \o Join(sep, Tail(parts))

\* lines 175-180
ColName(elems, df_entry) ==
    LET kept == SelectSeq(elems, LAMBDA elem : Truthy(elem, df_entry[elem]))
    IN Join(", ", [k \in 1..Len(kept) |-> kept[k] \o "=" \o Str(kept[k], df_entry[kept[k]])])

\* line 184
ElemNames(df) == SelectSeq(df.columns, LAMBDA x : x \notin {"score", "system_name"})

\* the orders iterating over set(values) can give: the order of a Python set
\* of strings is not defined by the language
SetOrders(S) ==
    {order \in [1..Cardinality(S) -> S] :
        \A a, b \in 1..Cardinality(S) : a # b => order[a] # order[b]}

\* {v: i for i, v in enumerate(order)}, the ids counted from 1
Enumerate(order) ==
    [v \in Range(order) |-> CHOOSE k \in 1..Len(order) : order[k] = v]

\* list(d.keys()) of a dict built by Enumerate
Keys(d) == [k \in 1..Cardinality(DOMAIN d) |-> CHOOSE v \in DOMAIN d : d[v] = k]

\* lines 186-188
RowColNames(df) == [n \in 1..Len(df.rows) |-> ColName(ElemNames(df), df.rows[n])]

\* np.zeros((rows, cols))
Zeros(rows, cols) == [r \in 1..rows |-> [c \in 1..cols |-> Zero]]

\* faulty variant: the value is added to the cell
SetCell_add(matrix, row_id, col_id, val) ==
    [matrix EXCEPT ![row_id][col_id] = RAdd(matrix[row_id][col_id], val)]

\* scores[row_id][col_id] = val
SetCell(matrix, row_id, col_id, val) == [matrix EXCEPT ![row_id][col_id] = val]

BenchmarkTable(system_names, column_names, score_lists) ==
    [system_names |-> system_names, column_names |-> column_names, scores |-> score_lists]

\* no call of dataframe_to_table is running
TableIdle ==
    /\ input_df = EmptyFrame
    /\ table_pc = "idle"
    /\ elem_names = <<>>
    /\ system_map = EmptyDict
    /\ row_col_names = <<>>
    /\ column_map = EmptyDict
    /\ scores = <<>>
    /\ row_no = 0
    /\ table = BenchmarkTable(<<>>, <<>>, <<>>)

\* lines 184-185
MapSystems ==
    /\ table_pc = "systems"
    /\ elem_names' = ElemNames(input_df)
    /\ \E order \in SetOrders({input_df.rows[n]["system_name"] : n \in 1..Len(input_df.rows)}) :
          system_map' = Enumerate(order)
    /\ table_pc' = "columns"
    /\ UNCHANGED <<input_df, row_col_names, column_map, scores, row_no, table>>
    /\ UNCHANGED <<buildVars, composerVars>>

\* lines 186-190
MapColumns ==
    /\ table_pc = "columns"
    /\ row_col_names' = RowColNames(input_df)
    /\ \E order \in SetOrders(Range(RowColNames(input_df))) :
          /\ column_map' = Enumerate(order)
          /\ scores' = Zeros(Cardinality(DOMAIN system_map), Len(order))
    /\ row_no' = 1
    /\ table_pc' = "fill"
    /\ UNCHANGED <<input_df, elem_names, system_map, table>>
    /\ UNCHANGED <<buildVars, composerVars>>

\* lines 191-195, one iteration of the loop over the rows
FillCell ==
    /\ table_pc = "fill"
    /\ row_no <= Len(input_df.rows)
    /\ LET df_data == input_df.rows[row_no]
           row_id == system_map[df_data["system_name"]]
           col_id == column_map[row_col_names[row_no]]
           val == df_data["score"]
       IN scores' = SetCell(scores, row_id, col_id, val)
    /\ row_no' = row_no + 1
    /\ UNCHANGED <<input_df, table_pc, elem_names, system_map, row_col_names, column_map,
                   table>>
    /\ UNCHANGED <<buildVars, composerVars>>

\* lines 196-201
ReturnTable ==
    /\ table_pc = "fill"
    /\ row_no > Len(input_df.rows)
    /\ table' = BenchmarkTable(Keys(system_map), Keys(column_map), scores)
    /\ table_pc' = "done"
    /\ UNCHANGED <<input_df, elem_names, system_map, row_col_names, column_map, scores,
                   row_no>>
    /\ UNCHANGED <<buildVars, composerVars>>

(***************************************************************************)
(* Benchmark Composer: benchmark_benchmark_id_get of                       *)
(* default_controllers_impl.py.  The database is an input: stored[r] is    *)
(* the list systems_get returns for the r-th record config.                *)
(***************************************************************************)
One == <<1, 1>>

\* lines 171-173
SysMetrics(sys_info) ==
    [k \in 1..Len(sys_info["metric_configs"]) |-> sys_info["metric_configs"][k]["name"]]

\* faulty variant: every metric the system reports is taken
CommonMetrics_reported(sys_info, record) == Range(SysMetrics(sys_info))

\* line 178
CommonMetrics(sys_info, record) == Range(SysMetrics(sys_info)) \cap Range(record["metrics"])

\* lines 182-185: the dict comprehension raises KeyError at a metric that
\* sys_info["results"]["overall"] does not hold
MetricsError(sys_info, record) ==
    \E metric \in CommonMetrics(sys_info, record) :
        metric \notin DOMAIN sys_info["results"]["overall"]

\* lines 182-185
LeaderboardMetrics(sys_info, record) ==
    [metric \in CommonMetrics(sys_info, record) |->
        sys_info["results"]["overall"][metric]["value"]]

\* the four dimensions of lines 195-231, in the order they are resolved
Dimensions == <<"dataset", "task", "target_language", "source_language">>

\* aggregation_configs[dimension]["weights"] raises KeyError
WeightError(aggregation_configs, dimension) ==
    \/ dimension \notin DOMAIN aggregation_configs
    \/ "weights" \notin DOMAIN aggregation_configs[dimension]

\* faulty variant: the weight table is not consulted
Weight_default(aggregation_configs, dimension, value) == One

\* the conditional expression of lines 195-202, 204-209, 211-220, 222-231
Weight(aggregation_configs, dimension, value) ==
    IF value \notin DOMAIN aggregation_configs[dimension]["weights"]
    THEN One
    ELSE aggregation_configs[dimension]["weights"][value]

\* lines 189-231: the record of a system, once every lookup succeeded
LeaderboardRecord(sys_info, record, aggregation_configs) ==
    [system_name |-> sys_info["system_name"],
     metrics |-> LeaderboardMetrics(sys_info, record),
     metric_weights |-> record["metric_weights"],
     op_metric |-> record["op_metric"],
     dataset_weight |-> Weight(aggregation_configs, "dataset", record["dataset_name"]),
     task_weight |-> Weight(aggregation_configs, "task", sys_info["task_name"]),
     target_language_weight |->
         Weight(aggregation_configs, "target_language", sys_info["target_language"]),
     source_language_weight |->
         Weight(aggregation_configs, "source_language", sys_info["source_language"])]

\* lines 148-167: the systems of the next record config are fetched
FetchSystems ==
    /\ composer_pc = "records"
    /\ rec <= Len(bm_config["record_configs"])
    /\ fetched' = stored[rec]
    /\ sys_i' = 1
    /\ composer_pc' = "systems"
    /\ UNCHANGED <<bm_config, stored, composer_err, rec, leaderboard>>
    /\ UNCHANGED <<buildVars, tableVars>>

\* lines 168-233, one iteration of the loop over the fetched systems
ProcessSystem ==
    /\ composer_pc = "systems"
    /\ sys_i <= Len(fetched)
    /\ LET sys_info == fetched[sys_i]
           record == bm_config["record_configs"][rec]
           aggregation_configs == bm_config["aggregation_configs"]
       IN IF CommonMetrics(sys_info, record) = {}
          THEN \* continue
               /\ sys_i' = sys_i + 1
               /\ UNCHANGED <<composer_pc, composer_err, leaderboard>>
          ELSE IF \/ MetricsError(sys_info, record)
                  \/ \E d \in Range(Dimensions) : WeightError(aggregation_configs, d)
          THEN /\ composer_pc' = "failed"
               /\ composer_err' = "KeyError"
               /\ UNCHANGED <<sys_i, leaderboard>>
          ELSE /\ leaderboard' =
                     Append(leaderboard,
                            LeaderboardRecord(sys_info, record, aggregation_configs))
               /\ sys_i' = sys_i + 1
               /\ UNCHANGED <<composer_pc, composer_err>>
    /\ UNCHANGED <<bm_config, stored, rec, fetched>>
    /\ UNCHANGED <<buildVars, tableVars>>

\* line 168 exhausted: back to the loop of line 148
NextRecord ==
    /\ composer_pc = "systems"
    /\ sys_i > Len(fetched)
    /\ rec' = rec + 1
    /\ composer_pc' = "records"
    /\ UNCHANGED <<bm_config, stored, composer_err, fetched, sys_i, leaderboard>>
    /\ UNCHANGED <<buildVars, tableVars>>

\* lines 235-236
ReturnBenchmark ==
    /\ composer_pc = "records"
    /\ rec > Len(bm_config["record_configs"])
    /\ composer_pc' = "done"
    /\ UNCHANGED <<bm_config, stored, composer_err, rec, fetched, sys_i, leaderboard>>
    /\ UNCHANGED <<buildVars, tableVars>>

\* no call of benchmark_benchmark_id_get is running
ComposerIdle ==
    /\ bm_config = EmptyDict
    /\ stored = <<>>
    /\ composer_pc = "idle"
    /\ composer_err = "none"
    /\ rec = 0
    /\ fetched = <<>>
    /\ sys_i = 0
    /\ leaderboard = <<>>

(***************************************************************************)
(* Specifications.                                                         *)
(***************************************************************************)
Op_mean == [op |-> "mean"]

Op_sum == [op |-> "sum"]

Op_mul(other) == [op |-> "multiply", other |-> other]

\* the operations SpecViews draws from: dataset_name is a string column,
\* sub_dataset_name a column of None, dataset_weight not a column of the table
Operations ==
    {Op_mean, Op_sum, Op_mul("metric_weight"), Op_mul("dataset_name"),
     Op_mul("sub_dataset_name"), Op_mul("dataset_weight")}

View(name, operations) == [name |-> name, operations |-> operations]

ViewSpecs ==
    {View("weighted", ops) : ops \in SeqsUpTo(Operations, 0, MaxOps)}
    \cup {View("orig", <<>>), View("orig", <<Op_mean>>)}

Configs(datasetLists, metricLists, viewLists) ==
    {[datasets |-> ds, views |-> vs] : ds \in datasetLists, vs \in viewLists}
    \cup {[datasets |-> ds, metrics |-> ms, views |-> vs] :
            ds \in datasetLists, ms \in metricLists, vs \in viewLists}

InitCall ==
    /\ pc = "index"
    /\ err = "none"
    /\ dataset_to_id = EmptyDict
    /\ system_dataset_results = EmptyDict
    /\ sys_order = <<>>
    /\ i = 0
    /\ j = 0
    /\ df_columns = <<>>
    /\ df_rows = <<>>
    /\ orig_df = EmptyFrame
    /\ output_df = EmptyFrame
    /\ view_dfs = EmptyDict
    /\ view_order = <<>>

\* the systems lists Init draws: the infos in any order, none of them twice
\* (I_A_sst2 and I_A_sst2_f1 are two submissions of A to one dataset)
InfoLists ==
    {s \in SeqsUpTo(SysInfos, 1, MaxInfos) :
        \A a, b \in 1..Len(s) : a # b => s[a] # s[b]}

\* any config over the dataset specs and metric lists, any systems list, and
\* the mean view
Init ==
    /\ config \in Configs(SeqsUpTo(DatasetSpecs, 1, MaxDatasets), MetricLists,
                          {<<View("mean", <<Op_mean>>)>>})
    /\ systems \in InfoLists
    /\ InitCall
    /\ TableIdle
    /\ ComposerIdle

\* the views that stand before the last one in the lists InitViews draws
EarlierViews ==
    {View("weighted", <<Op_mul("metric_weight")>>), View("orig", <<Op_mean>>),
     View("by_system", <<Op_sum>>)}

ViewLists ==
    {<<>>} \cup {prefix \o <<v>> : prefix \in SeqsUpTo(EarlierViews, 0, MaxViews - 1),
                                    v \in ViewSpecs}

\* one table, and a list of views that ends with any view
InitViews ==
    /\ config \in Configs({<<DS_sst2, DS_mnli>>}, {<<M_acc, M_f1>>}, ViewLists)
    /\ "metrics" \in DOMAIN config
    /\ systems \in {<<I_A_sst2, I_B_sst2, I_A_mnli>>}
    /\ InitCall
    /\ TableIdle
    /\ ComposerIdle

Next ==
    \/ BuildIndex
    \/ PlaceInfo
    \/ InitDfInput
    \/ EmitRows
    \/ ReturnDataFrame
    \/ CopyInput
    \/ ApplyOperation
    \/ StoreView
    \/ ReturnViews

Spec == Init /\ [][Next]_vars

SpecViews == InitViews /\ [][Next]_vars

\* no call of generate_view_dataframes is running
BuildIdle ==
    /\ config = [datasets |-> <<>>, views |-> <<>>]
    /\ systems = <<>>
    /\ InitCall

TableRow(sn, dn, sub, weight, score) ==
    [system_name |-> sn, dataset_name |-> dn, sub_dataset_name |-> sub,
     metric_weight |-> weight, score |-> score]

\* the rows SpecTable draws: two rows of one system and label, a dataset
\* name that holds the separator, an empty sub dataset name, a zero weight
TableRows ==
    {TableRow("A", "xnli", "en", <<1, 1>>, <<1, 2>>),
     TableRow("A", "xnli", "en", <<1, 1>>, <<4, 5>>),
     TableRow("A", "xnli, sub_dataset_name=en", None, <<1, 1>>, <<1, 4>>),
     TableRow("B", "xnli", "en", <<1, 1>>, <<1, 5>>),
     TableRow("A", "sst2", None, <<3, 4>>, <<3, 5>>),
     TableRow("B", "sst2", None, <<3, 4>>, <<2, 5>>),
     TableRow("B", "sst2", "", <<3, 4>>, <<1, 10>>),
     TableRow("B", "sst2", None, <<0, 1>>, <<1, 1>>)}

\* a call of dataframe_to_table on any table of up to MaxRows of the rows
InitTable ==
    /\ input_df \in {DataFrame(<<"system_name", "dataset_name", "sub_dataset_name",
                                 "metric_weight", "score">>, rows) :
                         rows \in SeqsUpTo(TableRows, 0, MaxRows)}
    /\ table_pc = "systems"
    /\ elem_names = <<>>
    /\ system_map = EmptyDict
    /\ row_col_names = <<>>
    /\ column_map = EmptyDict
    /\ scores = <<>>
    /\ row_no = 0
    /\ table = BenchmarkTable(<<>>, <<>>, <<>>)
    /\ BuildIdle
    /\ ComposerIdle

NextTable ==
    \/ MapSystems
    \/ MapColumns
    \/ FillCell
    \/ ReturnTable

SpecTable == InitTable /\ [][NextTable]_vars

RecordConfig(dn, sub, split, metrics) ==
    [dataset_name |-> dn, sub_dataset_name |-> sub, dataset_split |-> split,
     metrics |-> metrics, metric_weights |-> [m \in Range(metrics) |-> One],
     op_metric |-> "mean"]

R_sst2 == RecordConfig("sst2", None, "test", <<"accuracy", "f1">>)

R_xnli == RecordConfig("xnli", "en", "dev", <<"f1">>)

SystemInfo(sn, metrics, task, target, source, overall) ==
    [system_name |-> sn, metric_configs |-> [k \in 1..Len(metrics) |-> [name |-> metrics[k]]],
     task_name |-> task, target_language |-> target, source_language |-> source,
     results |-> [overall |-> overall]]

\* reports both metrics
S_A ==
    SystemInfo("A", <<"accuracy", "f1">>, "text-classification", "en", "en",
               [accuracy |-> [value |-> <<4, 5>>], f1 |-> [value |-> <<1, 4>>]])

\* reports no metric a record config requires
S_B == SystemInfo("B", <<"bleu">>, "machine-translation", "zh", "en",
                  [bleu |-> [value |-> <<3, 10>>]])

\* names f1 in its metric configs and has no f1 in its overall results
S_C == SystemInfo("C", <<"accuracy", "f1">>, "nli", "en", None,
                  [accuracy |-> [value |-> <<3, 5>>]])

\* reports f1 only
S_D == SystemInfo("D", <<"f1">>, "nli", "zh", None, [f1 |-> [value |-> <<1, 10>>]])

StoredSystems == {S_A, S_B, S_C, S_D}

Weights(dataset, task, target, source) ==
    [dataset |-> [weights |-> dataset], task |-> [weights |-> task],
     target_language |-> [weights |-> target], source_language |-> [weights |-> source]]

\* every dimension has a table
AC_full ==
    Weights([sst2 |-> <<2, 1>>], [nli |-> <<3, 1>>], [zh |-> <<1, 2>>, en |-> <<3, 2>>],
            [en |-> <<5, 4>>])

\* every table is empty
AC_empty == Weights(EmptyDict, EmptyDict, EmptyDict, EmptyDict)

\* no table for the source language
AC_noSource ==
    [dataset |-> [weights |-> [sst2 |-> <<2, 1>>]], task |-> [weights |-> EmptyDict],
     target_language |-> [weights |-> EmptyDict]]

\* any of the configs, and any answer of the database to each record config
InitComposer ==
    /\ bm_config \in {[record_configs |-> rs, aggregation_configs |-> ac] :
                        rs \in {<<>>, <<R_sst2>>, <<R_xnli, R_sst2>>},
                        ac \in {AC_full, AC_empty, AC_noSource}}
    /\ stored \in [1..Len(bm_config["record_configs"]) ->
                      SeqsUpTo(StoredSystems, 0, MaxFetched)]
    /\ composer_pc = "records"
    /\ composer_err = "none"
    /\ rec = 1
    /\ fetched = <<>>
    /\ sys_i = 0
    /\ leaderboard = <<>>
    /\ BuildIdle
    /\ TableIdle

NextComposer ==
    \/ FetchSystems
    \/ ProcessSystem
    \/ NextRecord
    \/ ReturnBenchmark

SpecComposer == InitComposer /\ [][NextComposer]_vars

(***************************************************************************)
(* Vocabulary of the properties.                                           *)
(***************************************************************************)
\* the Table Builder has returned its table
TableBuilt == view_order # <<>>

\* the Table Builder has raised
BuilderFailed == pc = "failed" /\ view_order = <<>>

\* the distinct system_name values of the input
InputSystemNames == {systems[n]["system_name"] : n \in 1..Len(systems)}

NumSystems == Cardinality(InputSystemNames)

\* the number of effective metrics of the first d datasets
RECURSIVE MetricsUpTo(_)
MetricsUpTo(d) ==
    IF d = 0 THEN 0 ELSE MetricsUpTo(d - 1) + Len(DatasetMetrics(config["datasets"][d]))

RowsPerSystem == MetricsUpTo(Len(config["datasets"]))

\* the position in the table of the row of the k-th system, dataset position
\* d and metric position m
RowPos(k, d, m) == (k - 1) * RowsPerSystem + MetricsUpTo(d - 1) + m

Triples ==
    {t \in (1..Len(sys_order)) \X (1..Len(config["datasets"])) \X (1..RowsPerSystem) :
        t[3] <= Len(DatasetMetrics(config["datasets"][t[2]]))}

\* the last info of the input that system sn submitted and the dataset index
\* resolves to position d; 0 when there is none
LastSubmission(sn, d) ==
    LET hits == {n \in 1..Len(systems) :
                    /\ systems[n]["system_name"] = sn
                    /\ SysKey(systems[n]) \in DOMAIN dataset_to_id
                    /\ dataset_to_id[SysKey(systems[n])] = d}
    IN IF hits = {} THEN 0 ELSE CHOOSE n \in hits : \A m \in hits : m <= n

\* the score the specification gives the triple
ExpectedScore(sn, d, m) ==
    LET metric == DatasetMetrics(config["datasets"][d])[m]
        n == LastSubmission(sn, d)
    IN IF n # 0 /\ metric["name"] \in DOMAIN systems[n]["results"]
       THEN systems[n]["results"][metric["name"]]
       ELSE IF "default" \in DOMAIN metric THEN metric["default"] ELSE <<0, 1>>

(***************************************************************************)
(* C1.  Rectangularity as claimed: a returned table has exactly (number of *)
(* distinct system names) x N x M rows, N the number of datasets and M the *)
(* size of the config's metric list.  Violated when a dataset carries its  *)
(* own metrics list of another size.                                       *)
(***************************************************************************)
C1_Original ==
    (TableBuilt /\ "metrics" \in DOMAIN config) =>
        Len(orig_df.rows) = NumSystems * Len(config["datasets"]) * Len(config["metrics"])

(***************************************************************************)
(* C1, amended.  A returned table has exactly (number of distinct system   *)
(* names) x (sum over the datasets of the size of the dataset's effective  *)
(* metric list) rows, which is systems x N x M when no dataset carries its *)
(* own metrics list; every system has, for every dataset position, one row *)
(* per effective metric of that dataset, whatever it submitted to.         *)
(***************************************************************************)
C1_Rectangular ==
    TableBuilt =>
        /\ Range(sys_order) = InputSystemNames
        /\ Len(sys_order) = NumSystems
        /\ Len(orig_df.rows) = NumSystems * RowsPerSystem
        /\ \A t \in Triples :
              LET row == orig_df.rows[RowPos(t[1], t[2], t[3])]
              IN /\ row["system_name"] = sys_order[t[1]]
                 /\ row["dataset_name"] = config["datasets"][t[2]]["dataset_name"]
                 /\ row["metric"] = DatasetMetrics(config["datasets"][t[2]])[t[3]]["name"]
        /\ (\A d \in 1..Len(config["datasets"]) : "metrics" \notin DOMAIN config["datasets"][d])
              => Len(orig_df.rows) =
                    NumSystems * Len(config["datasets"]) * Len(config["metrics"])

\* a table of two systems, one without a submission to some dataset, under a
\* config in which a dataset overrides the metric list with one of another size
C1_Witness ==
    /\ pc = "done"
    /\ NumSystems = 2
    /\ "metrics" \in DOMAIN config
    /\ \E d \in 1..Len(config["datasets"]) :
          /\ "metrics" \in DOMAIN config["datasets"][d]
          /\ Len(config["datasets"][d]["metrics"]) # Len(config["metrics"])
    /\ \E sn \in DOMAIN system_dataset_results :
          \E d \in 1..Len(config["datasets"]) : system_dataset_results[sn][d] = 0
    /\ Len(orig_df.rows) > 0

(***************************************************************************)
(* C2.  Score resolution: in a returned table the row of every (system,    *)
(* dataset position, effective metric) triple is present and carries the   *)
(* submitted value of the metric when the system has a submission the      *)
(* index resolved to that dataset and its results contain the metric, and  *)
(* the metric's default (0.0 when none is configured) otherwise.           *)
(***************************************************************************)
C2_ScoreResolution ==
    TableBuilt =>
        /\ Len(orig_df.rows) = Len(sys_order) * RowsPerSystem
        /\ \A t \in Triples :
              orig_df.rows[RowPos(t[1], t[2], t[3])]["score"]
                 = ExpectedScore(sys_order[t[1]], t[2], t[3])

\* a table with a row of each of the three cases, the defaulted ones under a
\* metric with a configured default
C2_Witness ==
    /\ pc = "done"
    /\ \E t \in Triples :
          LET n == LastSubmission(sys_order[t[1]], t[2])
              metric == DatasetMetrics(config["datasets"][t[2]])[t[3]]
          IN n # 0 /\ metric["name"] \in DOMAIN systems[n]["results"]
    /\ \E t \in Triples :
          LET n == LastSubmission(sys_order[t[1]], t[2])
              metric == DatasetMetrics(config["datasets"][t[2]])[t[3]]
          IN /\ n # 0
             /\ metric["name"] \notin DOMAIN systems[n]["results"]
             /\ "default" \in DOMAIN metric
             /\ orig_df.rows[RowPos(t[1], t[2], t[3])]["score"] = metric["default"]
    /\ \E t \in Triples :
          LET metric == DatasetMetrics(config["datasets"][t[2]])[t[3]]
          IN /\ LastSubmission(sys_order[t[1]], t[2]) = 0
             /\ "default" \notin DOMAIN metric
             /\ orig_df.rows[RowPos(t[1], t[2], t[3])]["score"] = <<0, 1>>

(***************************************************************************)
(* C3.  Dataset identity resolution as claimed: an info whose              *)
(* (dataset_name, sub_dataset_name, dataset_split) equals the identity of  *)
(* a configured dataset never makes the Table Builder fail, and once the   *)
(* infos are placed the slot of that dataset (when its identity is unique  *)
(* in the config) holds a submission of that system to that identity.      *)
(***************************************************************************)
IdentityPositions(sys) ==
    {d \in 1..Len(config["datasets"]) : RecordIdentity(config["datasets"][d]) = SysKey(sys)}

C3_Original ==
    /\ (BuilderFailed /\ err = "KeyError") => IdentityPositions(systems[i]) = {}
    /\ (pc \in {"emit", "views", "ops", "done"}) =>
          \A n \in 1..Len(systems) :
             \A d \in IdentityPositions(systems[n]) :
                IdentityPositions(systems[n]) = {d} =>
                   LET slot == system_dataset_results[systems[n]["system_name"]][d]
                   IN /\ slot # 0
                      /\ SysKey(systems[slot]) = SysKey(systems[n])
                      /\ systems[slot]["system_name"] = systems[n]["system_name"]

(***************************************************************************)
(* C4.  If an info of the input has an identity tuple that is not a key of *)
(* the dataset index, the Table Builder raises KeyError (a LookupError) at *)
(* the first such info and returns no table, whatever the other infos are  *)
(* and wherever the info stands in the input.                              *)
(***************************************************************************)
UnlistedInfos ==
    {n \in 1..Len(systems) : SysKey(systems[n]) \notin DOMAIN DatasetToId(config["datasets"])}

FirstUnlisted == CHOOSE n \in UnlistedInfos : \A m \in UnlistedInfos : n <= m

C4_UnlistedFails ==
    UnlistedInfos # {} =>
        /\ pc \in {"index", "group", "failed"}
        /\ pc = "group" => i <= FirstUnlisted
        /\ pc = "failed" => (err = "KeyError" /\ i = FirstUnlisted)
        /\ ~TableBuilt
        /\ orig_df = EmptyFrame
        /\ view_dfs = EmptyDict

\* the call has failed on an unlisted dataset in last place, after two infos
\* of listed datasets were placed
C4_Witness ==
    /\ BuilderFailed
    /\ err = "KeyError"
    /\ Len(systems) = 3
    /\ i = 3
    /\ systems[3]["dataset_name"] = "sst3"
    /\ \A d \in 1..Len(config["datasets"]) : config["datasets"][d]["dataset_name"] # "sst3"
    /\ \E sn \in DOMAIN system_dataset_results :
          \E d \in 1..Len(config["datasets"]) : system_dataset_results[sn][d] # 0

(***************************************************************************)
(* C5.  Duplicate identity as claimed: when two datasets of the config     *)
(* have the same (dataset_name, sub_dataset_name, dataset_split), the call *)
(* gets no further than building the index, where it fails with a          *)
(* ConfigError; no table is produced.                                      *)
(***************************************************************************)
HasDuplicateIdentity ==
    \E d1, d2 \in 1..Len(config["datasets"]) :
        /\ d1 # d2
        /\ RecordIdentity(config["datasets"][d1]) = RecordIdentity(config["datasets"][d2])

C5_Original ==
    HasDuplicateIdentity =>
        /\ pc \in {"index", "failed"}
        /\ pc = "failed" => err = "ConfigError"
        /\ ~TableBuilt

(***************************************************************************)
(* C6.  Row uniqueness as claimed: a returned table has at most one row    *)
(* for any (system_name, dataset_name, sub_dataset_name, dataset_split,    *)
(* metric).                                                                *)
(***************************************************************************)
SameTriple(r1, r2) ==
    /\ r1["system_name"] = r2["system_name"]
    /\ r1["dataset_name"] = r2["dataset_name"]
    /\ r1["sub_dataset_name"] = r2["sub_dataset_name"]
    /\ r1["dataset_split"] = r2["dataset_split"]
    /\ r1["metric"] = r2["metric"]

C6_Original ==
    TableBuilt =>
        \A a, b \in 1..Len(orig_df.rows) :
            a # b => ~SameTriple(orig_df.rows[a], orig_df.rows[b])

(***************************************************************************)
(* C7.  The orig view as claimed: once the table is built, and after every *)
(* configured view has been aggregated, view_dfs holds under "orig" the    *)
(* normalized table the Table Builder returned.                            *)
(***************************************************************************)
C7_Original ==
    (TableBuilt /\ pc \in {"views", "ops", "done"}) =>
        /\ "orig" \in DOMAIN view_dfs
        /\ view_dfs["orig"].columns = df_columns
        /\ view_dfs["orig"].rows = df_rows

(***************************************************************************)
(* C8.  Multiply as claimed: a Multiply{other} step fails with KeyError (a *)
(* LookupError) when other is not a column of the working table, and in    *)
(* every other case sets score := score x other row by row and leaves      *)
(* every other column, the index and the rows' order unchanged.            *)
(***************************************************************************)
AtMultiply ==
    /\ pc = "ops"
    /\ j <= Len(config["views"][i]["operations"])
    /\ config["views"][i]["operations"][j]["op"] = "multiply"

Other == config["views"][i]["operations"][j]["other"]

HoldsStrings(df, col) ==
    col \in {"system_name", "dataset_name", "metric"} /\ Len(df.rows) > 0

SystemsOf(df) == {df.rows[n]["system_name"] : n \in 1..Len(df.rows)}

GroupingView(view_spec) ==
    /\ Len(view_spec["operations"]) >= 1
    /\ \A n \in 1..Len(view_spec["operations"]) :
          view_spec["operations"][n]["op"] \in {"mean", "sum"}

C9_SystemsPreserved ==
    [][(pc = "ops" /\ pc' = "views" /\ GroupingView(config["views"][i])) =>
          LET out == view_dfs'[config["views"][i]["name"]]
          IN /\ "system_name" \in Range(out.columns)
             /\ SystemsOf(out) = SystemsOf(orig_df)
             /\ Len(out.rows) = Cardinality(SystemsOf(orig_df))]_vars

\* a view of a Mean followed by a Sum has been stored for a table of two
\* systems with several rows each
C9_Witness ==
    /\ pc = "views"
    /\ i = 2
    /\ config["views"][1]["operations"] = <<Op_mean, Op_sum>>
    /\ Cardinality(SystemsOf(orig_df)) = 2
    /\ Len(orig_df.rows) > 2
    /\ Len(view_dfs[config["views"][1]["name"]].rows) = 2

(***************************************************************************)
(* C10.  Default-fill participates in aggregation: the Mean view of the    *)
(* built table gives every system the mean score (sum over the (dataset,   *)
(* metric) pairs of the submitted score, or of the metric's default where  *)
(* the system has none) / (number of (dataset, metric) pairs), the same    *)
(* divisor for every system.                                               *)
(***************************************************************************)
RECURSIVE SumExpected(_, _)
SumExpected(sn, pairs) ==
    IF pairs = {} THEN <<0, 1>>
    ELSE LET p == CHOOSE x \in pairs : TRUE
         IN RAdd(ExpectedScore(sn, p[1], p[2]), SumExpected(sn, pairs \ {p}))

PairsOf(k) == {<<t[2], t[3]>> : t \in {u \in Triples : u[1] = k}}

C10_MeanWithDefaults ==
    (pc = "done" /\ "mean" \in DOMAIN view_dfs) =>
        LET out == view_dfs["mean"]
        IN /\ Len(out.rows) = Len(sys_order)
           /\ \A k \in 1..Len(sys_order) :
                 \E n \in 1..Len(out.rows) :
                    /\ out.rows[n]["system_name"] = sys_order[k]
                    /\ out.rows[n]["score"] =
                          RDivInt(SumExpected(sys_order[k], PairsOf(k)), RowsPerSystem)

\* two datasets, one metric: A submitted 0.8 and 0.6 and has mean 0.7, B
\* submitted 0.4 to one dataset only and has mean 0.2
C10_Witness ==
    /\ pc = "done"
    /\ Len(config["datasets"]) = 2
    /\ RowsPerSystem = 2
    /\ sys_order = <<"A", "B">>
    /\ \E d \in 1..2 : LastSubmission("B", d) = 0
    /\ \A d \in 1..2 : LastSubmission("A", d) # 0
    /\ view_dfs["mean"].rows[1]["score"] = <<7, 10>>
    /\ view_dfs["mean"].rows[2]["score"] = <<1, 5>>

(***************************************************************************)
(* Vocabulary of the Table Renderer's properties.                          *)
(***************************************************************************)
TableReturned == table_pc = "done"

NoDuplicates(s) == \A a, b \in 1..Len(s) : a # b => s[a] # s[b]

\* the rows of input_df with system s and label c
RowsOf(s, c) ==
    {n \in 1..Len(input_df.rows) :
        /\ input_df.rows[n]["system_name"] = s
        /\ ColName(ElemNames(input_df), input_df.rows[n]) = c}

Last(S) == CHOOSE n \in S : \A m \in S : m <= n

(***************************************************************************)
(* C11.  Table rendering: the returned table lists the systems and the     *)
(* labels of the input without duplicates, its matrix has one row per      *)
(* system and one cell per label, and the cell of (system, label) holds    *)
(* the score of the last input row with that system and label, or 0.0      *)
(* when the input has no such row.                                         *)
(***************************************************************************)
C11_LastWriteWins ==
    TableReturned =>
        /\ NoDuplicates(table.system_names)
        /\ NoDuplicates(table.column_names)
        /\ Range(table.system_names) =
              {input_df.rows[n]["system_name"] : n \in 1..Len(input_df.rows)}
        /\ Range(table.column_names) = Range(RowColNames(input_df))
        /\ Len(table.scores) = Len(table.system_names)
        /\ \A r \in 1..Len(table.scores) :
              /\ Len(table.scores[r]) = Len(table.column_names)
              /\ \A c \in 1..Len(table.column_names) :
                    LET hits == RowsOf(table.system_names[r], table.column_names[c])
                    IN table.scores[r][c] =
                          IF hits = {} THEN Zero ELSE input_df.rows[Last(hits)]["score"]

\* a returned table with a cell two rows of different scores wrote to, and a
\* cell no row wrote to
C11_Witness ==
    /\ TableReturned
    /\ \E n, m \in 1..Len(input_df.rows) :
          /\ n < m
          /\ m \in RowsOf(input_df.rows[n]["system_name"], row_col_names[n])
          /\ input_df.rows[n]["score"] # input_df.rows[m]["score"]
    /\ \E r \in 1..Len(table.system_names), c \in 1..Len(table.column_names) :
          /\ RowsOf(table.system_names[r], table.column_names[c]) = {}
          /\ table.scores[r][c] = Zero

\* rows n and m hold the same value in every descriptor column that is
\* non-empty in one of them
SameDescriptors(n, m) ==
    \A elem \in Range(ElemNames(input_df)) :
        (Truthy(elem, input_df.rows[n][elem]) \/ Truthy(elem, input_df.rows[m][elem]))
            => input_df.rows[n][elem] = input_df.rows[m][elem]

(***************************************************************************)
(* C12.  Column label injectivity as claimed: the labels of two rows are   *)
(* equal exactly when the rows hold identical values in every non-empty    *)
(* descriptor column, so two rows that differ in a descriptor value never  *)
(* share an output column.  Violated: the values are joined unescaped, and *)
(* the row (dataset_name "xnli, sub_dataset_name=en", no sub dataset) gets *)
(* the label of the row (dataset_name "xnli", sub_dataset_name "en").      *)
(***************************************************************************)
C12_Original ==
    table_pc \in {"fill", "done"} =>
        \A n, m \in 1..Len(input_df.rows) :
            (row_col_names[n] = row_col_names[m]) <=> SameDescriptors(n, m)

(***************************************************************************)
(* Vocabulary of the Benchmark Composer's properties.                      *)
(***************************************************************************)
LeaderboardReturned == composer_pc = "done"

\* the system the loop is at and its record config
AtSystem == composer_pc \in {"systems", "failed"} /\ sys_i \in 1..Len(fetched)

\* the (record config, fetched system) pairs from <<r, k>> on, in the order
\* the loops visit them, that have a metric in common
RECURSIVE Contributions(_, _)
Contributions(r, k) ==
    IF r > Len(bm_config["record_configs"]) THEN <<>>
    ELSE IF k > Len(stored[r]) THEN Contributions(r + 1, 1)
    ELSE IF Range(SysMetrics(stored[r][k])) \cap Range(bm_config["record_configs"][r]["metrics"])
               # {}
         THEN <<(<<r, k>>)>> \o Contributions(r, k + 1)
         ELSE Contributions(r, k + 1)

\* the weight the claim gives a dimension value
TableEntryOrOne(dimension, value) ==
    LET weights == bm_config["aggregation_configs"][dimension]["weights"]
    IN IF value \in DOMAIN weights THEN weights[value] ELSE One

(***************************************************************************)
(* C13.  Record inclusion: the returned leaderboard holds, in the order    *)
(* the loops visit them, one record for every fetched system that has a    *)
(* metric name in common with its record config and none for the others;   *)
(* the keys of a record's metrics are exactly the common metric names and  *)
(* each is mapped to the system's overall value.                           *)
(***************************************************************************)
C13_RecordInclusion ==
    LeaderboardReturned =>
        LET pairs == Contributions(1, 1)
        IN /\ Len(leaderboard) = Len(pairs)
           /\ \A n \in 1..Len(pairs) :
                 LET sys_info == stored[pairs[n][1]][pairs[n][2]]
                     required == Range(bm_config["record_configs"][pairs[n][1]]["metrics"])
                 IN /\ leaderboard[n]["system_name"] = sys_info["system_name"]
                    /\ DOMAIN leaderboard[n]["metrics"] =
                          Range(SysMetrics(sys_info)) \cap required
                    /\ \A metric \in DOMAIN leaderboard[n]["metrics"] :
                          leaderboard[n]["metrics"][metric] =
                              sys_info["results"]["overall"][metric]["value"]

\* a returned leaderboard: one system was skipped, and one contributed a
\* record with fewer metrics than it reports
C13_Witness ==
    /\ LeaderboardReturned
    /\ \E r \in 1..Len(stored) : \E k \in 1..Len(stored[r]) :
          Range(SysMetrics(stored[r][k])) \cap Range(bm_config["record_configs"][r]["metrics"])
              = {}
    /\ \E n \in 1..Len(leaderboard) :
          /\ leaderboard[n]["system_name"] = "A"
          /\ DOMAIN leaderboard[n]["metrics"] = {"f1"}

(***************************************************************************)
(* C14.  Error isolation as claimed: a lookup error in the record of one   *)
(* fetched system (a metric named in its metric configs without an entry   *)
(* in its overall results) never fails the call.  Violated: the KeyError   *)
(* of the metrics comprehension is not caught and ends the call.           *)
(***************************************************************************)
C14_Original ==
    ~(/\ composer_pc = "failed"
      /\ AtSystem
      /\ MetricsError(fetched[sys_i], bm_config["record_configs"][rec]))

\* every dimension of aggregation_configs has a weight table
Complete ==
    \A d \in Range(Dimensions) : ~WeightError(bm_config["aggregation_configs"], d)

\* the four weights of every record of the leaderboard are the table entry
\* of the record's dimension value when it is listed and 1.0 otherwise
ResolvedWeights ==
    LET pairs == Contributions(1, 1)
    IN /\ Len(leaderboard) = Len(pairs)
       /\ \A n \in 1..Len(pairs) :
             LET sys_info == stored[pairs[n][1]][pairs[n][2]]
                 record == bm_config["record_configs"][pairs[n][1]]
             IN /\ leaderboard[n]["dataset_weight"] =
                      TableEntryOrOne("dataset", record["dataset_name"])
                /\ leaderboard[n]["task_weight"] =
                      TableEntryOrOne("task", sys_info["task_name"])
                /\ leaderboard[n]["target_language_weight"] =
                      TableEntryOrOne("target_language", sys_info["target_language"])
                /\ leaderboard[n]["source_language_weight"] =
                      TableEntryOrOne("source_language", sys_info["source_language"])

\* the call failed at a system whose metrics were all found: the weights
\* raised
WeightsFailed ==
    /\ composer_pc = "failed"
    /\ AtSystem
    /\ ~MetricsError(fetched[sys_i], bm_config["record_configs"][rec])

(***************************************************************************)
(* C15.  Weight resolution as claimed: the four weights of every           *)
(* contributed record are the table entry of the dimension value when it   *)
(* is listed and 1.0 in every other case, and resolving them never fails.  *)
(* Violated: a dimension without a weight table raises KeyError.           *)
(***************************************************************************)
C15_Original ==
    /\ ~WeightsFailed
    /\ LeaderboardReturned => ResolvedWeights

(***************************************************************************)
(* C15, amended.  When aggregation_configs has a weight table for each of  *)
(* the four dimensions, resolving the weights never fails and the four     *)
(* weights of every contributed record are, each on its own, the table     *)
(* entry of the dimension value when it is listed and 1.0 otherwise; when  *)
(* a dimension has no weight table, no record is ever contributed, and the *)
(* call returns only if no fetched system has a metric in common with its  *)
(* record config.                                                          *)
(***************************************************************************)
C15_WeightResolution ==
    /\ Complete => ~WeightsFailed
    /\ (Complete /\ LeaderboardReturned) => ResolvedWeights
    /\ ~Complete =>
          /\ leaderboard = <<>>
          /\ LeaderboardReturned => Contributions(1, 1) = <<>>

\* a returned record with a listed dataset (2.0) and target language (1.5)
\* and an unlisted task and source language (1.0 each)
C15_Witness ==
    /\ LeaderboardReturned
    /\ \E n \in 1..Len(leaderboard) :
          /\ leaderboard[n]["dataset_weight"] = <<2, 1>>
          /\ leaderboard[n]["task_weight"] = One
          /\ leaderboard[n]["target_language_weight"] = <<3, 2>>
          /\ leaderboard[n]["source_language_weight"] = <<5, 4>>
    /\ \E n \in 1..Len(leaderboard) :
          /\ leaderboard[n]["dataset_weight"] = One
          /\ leaderboard[n]["task_weight"] = <<3, 1>>
          /\ leaderboard[n]["source_language_weight"] = One

\* the operations of the view hold no Mean and no Sum
NoGrouping(view_spec) ==
    \A n \in 1..Len(view_spec["operations"]) :
        view_spec["operations"][n]["op"] \notin {"mean", "sum"}

\* the column labels dataframe_to_table gives a table
LabelsOf(df) == {ColName(ElemNames(df), df.rows[n]) : n \in 1..Len(df.rows)}

(***************************************************************************)
(* C16.  A view without Mean and Sum as claimed: the table aggregate_view  *)
(* returns has the columns and the number of rows of its input, and        *)
(* dataframe_to_table gives it the column labels of the input.  Violated:  *)
(* reset_index turns the RangeIndex of the ungrouped table into a column   *)
(* named "index", which is a descriptor column of every label.             *)
(***************************************************************************)
C16_Original ==
    [][(pc = "ops" /\ pc' = "views" /\ NoGrouping(config["views"][i])) =>
          LET out == view_dfs'[config["views"][i]["name"]]
          IN /\ out.columns = orig_df.columns
             /\ Len(out.rows) = Len(orig_df.rows)
             /\ LabelsOf(out) = LabelsOf(orig_df)]_vars

====
